---- MODULE Spec2Model ----
(***************************************************************************)
(* Depth measures for functional data (skfda/exploratory/depth.py):        *)
(* _rank_samples, band_depth, modified_band_depth,                         *)
(* _cumulative_distribution and fraiman_muniz_depth.                       *)
(*                                                                         *)
(* The functions are pure.  A behaviour draws one input in Init (a grid or *)
(* a column) and one action applies one function to it and stores what the *)
(* call returned or raised.  Spec calls every function on grids over       *)
(* equally spaced coordinates and on columns; SpecFM calls                 *)
(* fraiman_muniz_depth on curves over unevenly spaced coordinates.         *)
(*                                                                         *)
(* Floating-point numbers are modelled as exact fractions in lowest terms, *)
(* [num, den]; den = 0 stands for the non-finite values numpy produces on  *)
(* a division by zero (0/0 = nan, x/0 = inf).                              *)
(***************************************************************************)
EXTENDS Integers, Sequences, FiniteSets, TLC

VARIABLES fdatagrid, column, pointwise, call, result

vars == <<fdatagrid, column, pointwise, call, result>>

(***************************************************************************)
(* Bounds                                                                  *)
(***************************************************************************)
MaxSamples == 3     \* samples of a grid over equally spaced coordinates
MaxPoints == 2      \* grid points (all axes together) of such a grid
MaxCells == 6       \* its nsamples * grid points * ndim_image
MaxFMSamples == 2   \* samples of a curve grid with coordinates of its own
MaxFMPoints == 4    \* its grid points
MaxFMCells == 8     \* its nsamples * grid points
MaxCoord == 4       \* its coordinates are drawn from 0..MaxCoord
MaxLen == 3         \* entries of a column
MaxVal == 2         \* the entries of a column are 0..MaxVal

(***************************************************************************)
(* Arithmetic of the float arrays                                          *)
(***************************************************************************)
Abs(x) == IF x < 0 THEN -x ELSE x

RECURSIVE GCD(_, _)
GCD(a, b) == IF b = 0 THEN a ELSE GCD(b, a % b)

Sign(x) == IF x > 0 THEN 1 ELSE IF x < 0 THEN -1 ELSE 0

\* the fraction n/d in lowest terms with a positive denominator;
\* d = 0 gives nan (0/0) or inf (x/0)
Frac(n, d) ==
    IF d = 0 THEN [num |-> Sign(n), den |-> 0]
    ELSE LET g == GCD(Abs(n), Abs(d))
         IN  [num |-> Sign(d) * (n \div g), den |-> Abs(d) \div g]

RInt(n) == [num |-> n, den |-> 1]

NaN == [num |-> 0, den |-> 0]

IsFinite(a) == a.den # 0

RAdd(a, b) ==
    IF a.den = 0 /\ b.den = 0
    THEN (IF a.num = b.num THEN a ELSE NaN)
    ELSE Frac(a.num * b.den + b.num * a.den, a.den * b.den)

RNeg(a) == [num |-> -a.num, den |-> a.den]

RSub(a, b) == RAdd(a, RNeg(b))

RMul(a, b) == Frac(a.num * b.num, a.den * b.den)

RDiv(a, b) ==
    IF b.den = 0
    THEN (IF a.den = 0 \/ b.num = 0 THEN NaN ELSE RInt(0))
    ELSE Frac(a.num * b.den, a.den * b.num)

RAbs(a) == [num |-> Abs(a.num), den |-> a.den]

\* a <= b; false as soon as one side is nan
RLeq(a, b) ==
    IF a = NaN \/ b = NaN THEN FALSE
    ELSE IF a.den = 0 /\ b.den = 0 THEN a.num <= b.num
    ELSE IF a.den = 0 THEN a.num < 0
    ELSE IF b.den = 0 THEN b.num > 0
    ELSE a.num * b.den <= b.num * a.den

(***************************************************************************)
(* Sorting helpers shared by scipy.stats.rankdata and numpy.unique         *)
(***************************************************************************)
\* indices 1..k of arr in ascending order of value, equal values in index
\* order (stable argsort)
RECURSIVE ArgSortUpTo(_, _)
ArgSortUpTo(arr, k) ==
    IF k = 0 THEN <<>>
    ELSE LET s == ArgSortUpTo(arr, k - 1)
             before == SelectSeq(s, LAMBDA j : arr[j] <= arr[k])
             after == SelectSeq(s, LAMBDA j : arr[j] > arr[k])
         IN  before \o <<k>> \o after

ArgSort(arr) == ArgSortUpTo(arr, Len(arr))

\* inv[sorter[k]] = k
InversePerm(sorter) ==
    [i \in 1..Len(sorter) |-> CHOOSE k \in 1..Len(sorter) : sorter[k] = i]

\* obs[k]: the k-th sorted value starts a new group of equal values
Obs(sarr) == [k \in 1..Len(sarr) |-> k = 1 \/ sarr[k] # sarr[k - 1]]

\* cumsum of a boolean array
RECURSIVE CumSumBool(_, _)
CumSumBool(obs, k) ==
    IF k = 0 THEN 0
    ELSE CumSumBool(obs, k - 1) + (IF obs[k] THEN 1 ELSE 0)

\* r_[nonzero(obs)[0], len(obs)]: 0-based start of every group, then n
GroupStarts(obs) ==
    LET n == Len(obs)
        starts == SelectSeq([k \in 1..n |-> k], LAMBDA k : obs[k])
    IN  [g \in 1..Len(starts) |-> starts[g] - 1] \o <<n>>

\* rankdata with method='min': every tie group takes its smallest rank
rankdata_min(a) ==
    LET sorter == ArgSort(a)
        inv == InversePerm(sorter)
        sarr == [k \in 1..Len(a) |-> a[sorter[k]]]
        obs == Obs(sarr)
        dense == [i \in 1..Len(a) |-> CumSumBool(obs, inv[i])]
        count == GroupStarts(obs)
    IN  [i \in 1..Len(a) |-> count[dense[i]] + 1]

\* rankdata with method='ordinal': ties are ranked in index order
rankdata_ordinal(a) == InversePerm(ArgSort(a))

\* scipy.stats.rankdata(a, method='max')
rankdata(a) ==
    LET sorter == ArgSort(a)
        inv == InversePerm(sorter)
        sarr == [k \in 1..Len(a) |-> a[sorter[k]]]
        obs == Obs(sarr)
        dense == [i \in 1..Len(a) |-> CumSumBool(obs, inv[i])]
        count == GroupStarts(obs)
    IN  [i \in 1..Len(a) |-> count[dense[i] + 1]]

(***************************************************************************)
(* The grid (FDataGrid) as the depth functions read it                     *)
(***************************************************************************)
nsamples(fd) == Len(fd.data_matrix)

ndim_domain(fd) == Len(fd.sample_points)

ndim_image(fd) == fd.ndim_image

\* the multi-indices of an array of the given shape
RECURSIVE Indices(_)
Indices(shape) ==
    IF shape = <<>> THEN {<<>>}
    ELSE {<<k>> \o rest : k \in 1..shape[1], rest \in Indices(Tail(shape))}

\* ranks.shape[1:], the shape of one sample
GridShape(fd) == [d \in 1..Len(fd.sample_points) |-> Len(fd.sample_points[d])]

\* data_matrix[(slice(None),) + index + (0,)]
Slice(fd, index) == [i \in 1..nsamples(fd) |-> fd.data_matrix[i][index][1]]

ValueError == [kind |-> "ValueError"]

(***************************************************************************)
(* _rank_samples                                                           *)
(***************************************************************************)
\* the guard reading the domain dimension in place of the image dimension
rank_invalid_domain(fd) == ndim_domain(fd) > 1

rank_invalid(fd) == ndim_image(fd) > 1

_rank_samples(fd) ==
    IF rank_invalid(fd) THEN ValueError
    ELSE LET cols == [index \in Indices(GridShape(fd)) |->
                         rankdata(Slice(fd, index))]
         IN  [kind |-> "ok",
              ranks |-> [i \in 1..nsamples(fd) |->
                            [index \in Indices(GridShape(fd)) |->
                                cols[index][i]]]]

(***************************************************************************)
(* band_depth and modified_band_depth                                      *)
(***************************************************************************)
\* n * (n - 1) / 2
nchoose2(n) == Frac(n * (n - 1), 2)

\* np.amin taken where np.amax is meant
AMax_is_amin(f) ==
    CHOOSE m \in {f[x] : x \in DOMAIN f} : \A x \in DOMAIN f : m <= f[x]

\* np.amax / np.amin over every domain axis of one sample's ranks
AMax(f) == CHOOSE m \in {f[x] : x \in DOMAIN f} : \A x \in DOMAIN f : f[x] <= m

AMin(f) == CHOOSE m \in {f[x] : x \in DOMAIN f} : \A x \in DOMAIN f : m <= f[x]

\* match.sum(axis=axis) for one sample
RECURSIVE SumOver(_, _)
SumOver(f, S) ==
    IF S = {} THEN 0
    ELSE LET x == CHOOSE y \in S : TRUE IN f[x] + SumOver(f, S \ {x})

\* the point count of the first domain axis only
npoints_sample_first_axis(sample_points) == Len(sample_points[1])

\* reduce(lambda x, y: x * len(y), sample_points, 1)
RECURSIVE npoints_sample(_)
npoints_sample(sample_points) ==
    IF sample_points = <<>> THEN 1
    ELSE LET k == Len(sample_points)
         IN  npoints_sample(SubSeq(sample_points, 1, k - 1))
                 * Len(sample_points[k])

\* nsamples_below taken as the rank itself, without the - 1
Match_below_is_rank(fd, ranks) ==
    [i \in 1..nsamples(fd) |->
        [index \in DOMAIN ranks[i] |->
            (nsamples(fd) - ranks[i][index]) * ranks[i][index]]]

\* nsamples_above * nsamples_below at every grid point
Match(fd, ranks) ==
    [i \in 1..nsamples(fd) |->
        [index \in DOMAIN ranks[i] |->
            (nsamples(fd) - ranks[i][index]) * (ranks[i][index] - 1)]]

modified_band_depth(fd, pw) ==
    LET n == nsamples(fd)
        r == _rank_samples(fd)
    IN  IF r.kind = "ValueError" THEN ValueError
        ELSE LET match == Match(fd, r.ranks)
                 proportion == [i \in 1..n |->
                     RDiv(RInt(SumOver(match[i], DOMAIN match[i])),
                          RInt(npoints_sample(fd.sample_points)))]
                 depth == [i \in 1..n |->
                     RDiv(RAdd(proportion[i], RInt(n - 1)), nchoose2(n))]
                 depth_pointwise == [i \in 1..n |->
                     [index \in DOMAIN match[i] |->
                         RDiv(RInt(match[i][index] + n - 1), nchoose2(n))]]
             IN  IF pw
                 THEN [kind |-> "ok", depth |-> depth,
                       depth_pointwise |-> depth_pointwise]
                 ELSE [kind |-> "ok", depth |-> depth]

band_depth(fd, pw) ==
    LET n == nsamples(fd)
        r == _rank_samples(fd)
    IN  IF r.kind = "ValueError" THEN ValueError
        ELSE LET nsamples_above == [i \in 1..n |-> n - AMax(r.ranks[i])]
                 nsamples_below == [i \in 1..n |-> AMin(r.ranks[i]) - 1]
                 depth == [i \in 1..n |->
                     RDiv(RInt(nsamples_below[i] * nsamples_above[i] + n - 1),
                          nchoose2(n))]
             IN  IF pw
                 THEN [kind |-> "ok", depth |-> depth,
                       depth_pointwise |->
                           modified_band_depth(fd, pw).depth_pointwise]
                 ELSE [kind |-> "ok", depth |-> depth]

(***************************************************************************)
(* _cumulative_distribution                                                *)
(***************************************************************************)
cumulative_invalid(col) == Len(col.shape) # 1

\* the counts themselves, without np.cumsum
CumulativeCounts_no_cumsum(idx) ==
    [g \in 1..(Len(idx) - 1) |-> idx[g + 1] - idx[g]]

\* np.cumsum(counts), counts being the differences of the group starts
CumulativeCounts(idx) == [g \in 1..(Len(idx) - 1) |-> idx[g + 1]]

\* np.unique(column, return_inverse=True, return_counts=True), then
\* np.cumsum(counts) / len(column) taken at the inverse indexes
_cumulative_distribution(col) ==
    IF cumulative_invalid(col) THEN ValueError
    ELSE LET data == col.data
             n == Len(data)
             perm == ArgSort(data)
             aux == [k \in 1..n |-> data[perm[k]]]
             mask == Obs(aux)
             inv == InversePerm(perm)
             indexes == [i \in 1..n |-> CumSumBool(mask, inv[i])]
             idx == GroupStarts(mask)
             count_cumulative == [g \in 1..(Len(idx) - 1) |->
                 RDiv(RInt(CumulativeCounts(idx)[g]), RInt(n))]
         IN  [kind |-> "ok",
              values |-> [i \in 1..n |-> count_cumulative[indexes[i]]]]

(***************************************************************************)
(* fraiman_muniz_depth                                                     *)
(***************************************************************************)
fm_invalid(fd) == ndim_domain(fd) > 1 \/ ndim_image(fd) > 1

\* the term with the factor hsum / 3 of the equally spaced formula
SimpsTerm_third(y, x, j) ==
    LET h0 == RInt(x[j + 1] - x[j])
        h1 == RInt(x[j + 2] - x[j + 1])
        hsum == RAdd(h0, h1)
        hprod == RMul(h0, h1)
        h0divh1 == RDiv(h0, h1)
    IN  RMul(RDiv(hsum, RInt(3)),
             RAdd(RAdd(RMul(y[j], RSub(RInt(2), RDiv(RInt(1), h0divh1))),
                       RDiv(RMul(y[j + 1], RMul(hsum, hsum)), hprod)),
                  RMul(y[j + 2], RSub(RInt(2), h0divh1))))

\* one term of scipy.integrate's _basic_simps with sample coordinates:
\* the parabola through the points j, j+1, j+2 (1-based)
SimpsTerm(y, x, j) ==
    LET h0 == RInt(x[j + 1] - x[j])
        h1 == RInt(x[j + 2] - x[j + 1])
        hsum == RAdd(h0, h1)
        hprod == RMul(h0, h1)
        h0divh1 == RDiv(h0, h1)
    IN  RMul(RDiv(hsum, RInt(6)),
             RAdd(RAdd(RMul(y[j], RSub(RInt(2), RDiv(RInt(1), h0divh1))),
                       RDiv(RMul(y[j + 1], RMul(hsum, hsum)), hprod)),
                  RMul(y[j + 2], RSub(RInt(2), h0divh1))))

\* _basic_simps(y, start, stop, x): the terms at the 0-based positions
\* start, start + 2, ... below stop (none when stop <= start)
RECURSIVE _basic_simps(_, _, _, _)
_basic_simps(y, start, stop, x) ==
    IF start >= stop THEN RInt(0)
    ELSE RAdd(SimpsTerm(y, x, start + 1), _basic_simps(y, start + 2, stop, x))

\* scipy.integrate.simps(y, x) with its default even='avg'
simps(y, x) ==
    LET N == Len(y)
    IN  IF N % 2 = 0
        THEN LET last_dx == RInt(x[N] - x[N - 1])
                 first_dx == RInt(x[2] - x[1])
                 val == RAdd(
                     RMul(RMul(Frac(1, 2), last_dx), RAdd(y[N], y[N - 1])),
                     RMul(RMul(Frac(1, 2), first_dx), RAdd(y[2], y[1])))
                 res == RAdd(_basic_simps(y, 0, N - 3, x),
                             _basic_simps(y, 1, N - 2, x))
             IN  RAdd(RDiv(res, RInt(2)), RDiv(val, RInt(2)))
        ELSE _basic_simps(y, 0, N - 2, x)

\* the pointwise depth without the abs
PointDepth_no_abs(F) == RSub(RInt(1), RSub(Frac(1, 2), F))

\* 1 - abs(0.5 - F) for one value F of the empirical distribution
PointDepth(F) == RSub(RInt(1), RAbs(RSub(Frac(1, 2), F)))

fraiman_muniz_depth(fd, pw) ==
    IF fm_invalid(fd) THEN ValueError
    ELSE LET n == nsamples(fd)
             npoints == Len(fd.sample_points[1])
             cd == [t \in 1..npoints |->
                 _cumulative_distribution(
                     [shape |-> <<n>>, data |-> Slice(fd, <<t>>)])]
             pointwise_depth == [i \in 1..n |->
                 [t \in 1..npoints |-> PointDepth(cd[t].values[i])]]
             interval_len == fd.domain_range[1][2] - fd.domain_range[1][1]
             depth == [i \in 1..n |->
                 RDiv(simps(pointwise_depth[i], fd.sample_points[1]),
                      RInt(interval_len))]
         IN  IF pw
             THEN [kind |-> "ok", depth |-> depth,
                   depth_pointwise |-> pointwise_depth]
             ELSE [kind |-> "ok", depth |-> depth]

(***************************************************************************)
(* Inputs                                                                  *)
(***************************************************************************)
RECURSIVE Product(_)
Product(shape) == IF shape = <<>> THEN 1 ELSE shape[1] * Product(Tail(shape))

\* shapes of a grid over one or two domain axes
Shapes(maxPoints) ==
    {<<p>> : p \in 1..maxPoints}
        \cup {s \in {<<a, b>> : a \in 1..maxPoints, b \in 1..maxPoints} :
                 Product(s) <= maxPoints}

\* strictly increasing coordinates
Coordinates(len, maxCoord) ==
    {s \in [1..len -> 0..maxCoord] : \A k \in 1..(len - 1) : s[k] < s[k + 1]}

Span(points) == <<points[1], points[Len(points)]>>

\* the values of n samples at one grid point; the depths only compare the
\* values found at the same grid point, so every weak ordering of the
\* samples is drawn once, as the values 0, 1, ... without a gap
CrossSections(n) ==
    {c \in [1..n -> 0..(n - 1)] :
        \A i \in 1..n : c[i] = 0 \/ \E j \in 1..n : c[j] = c[i] - 1}

\* the data matrix whose cross-section at each grid point and image
\* component is the one chosen by cs
DataMatrix(n, shape, image, cs) ==
    [i \in 1..n |-> [index \in Indices(shape) |->
                        [c \in 1..image |-> cs[<<index, c>>][i]]]]

CrossSectionChoices(n, shape, image) ==
    [Indices(shape) \X (1..image) -> CrossSections(n)]

\* nsamples, ndim_image and shape of the grids over equally spaced coordinates
RankGridSizes ==
    {q \in (1..MaxSamples) \X (1..2) \X Shapes(MaxPoints) :
        q[1] * Product(q[3]) * q[2] <= MaxCells}

\* a grid over the equally spaced coordinates 0, 1, 2, ... on every axis
RankGrid(image, shape, m) ==
    [ndim_image |-> image,
     sample_points |-> [d \in 1..Len(shape) |-> [k \in 1..shape[d] |-> k - 1]],
     domain_range |-> [d \in 1..Len(shape) |-> <<0, shape[d] - 1>>],
     data_matrix |-> m]

\* nsamples, reach of the domain range beyond the last coordinate, and
\* coordinates of the curve grids
FMGridSizes ==
    {q \in (1..MaxFMSamples) \X (0..1)
              \X UNION {Coordinates(len, MaxCoord) : len \in 1..MaxFMPoints} :
        q[1] * Len(q[3]) <= MaxFMCells}

\* curves over strictly increasing coordinates; the domain range is the span
\* of the coordinates or reaches beyond their last one
FMGrid(extra, points, m) ==
    [ndim_image |-> 1,
     sample_points |-> <<points>>,
     domain_range |-> <<<<points[1], points[Len(points)] + extra>>>>,
     data_matrix |-> m]

NoGrid ==
    [ndim_image |-> 0, sample_points |-> <<>>, domain_range |-> <<>>,
     data_matrix |-> <<>>]

\* the column of the doctest of _cumulative_distribution
DocColumn == [shape |-> <<10>>, data |-> <<1, 4, 5, 1, 2, 2, 4, 1, 1, 3>>]

\* arrays of zero, one or two dimensions, stored flat
Columns ==
    UNION {
        {[shape |-> shape, data |-> d] :
            d \in [1..Product(shape) -> 0..MaxVal]}
        : shape \in {<<>>} \cup {<<len>> : len \in 0..MaxLen}
                           \cup {s \in Shapes(MaxLen) : Len(s) = 2}}
        \cup {DocColumn}

NoColumn == [shape |-> <<>>, data |-> <<>>]

NoResult == [kind |-> "none"]

(***************************************************************************)
(* The calls                                                               *)
(***************************************************************************)
Init ==
    /\ \/ /\ \E q \in RankGridSizes :
                 \E cs \in CrossSectionChoices(q[1], q[3], q[2]) :
                     fdatagrid =
                         RankGrid(q[2], q[3], DataMatrix(q[1], q[3], q[2], cs))
          /\ column = NoColumn
       \/ fdatagrid = NoGrid /\ column \in Columns
    /\ pointwise = FALSE
    /\ call = "none"
    /\ result = NoResult

Call_rank_samples ==
    /\ call = "none"
    /\ fdatagrid # NoGrid
    /\ call' = "_rank_samples"
    /\ result' = _rank_samples(fdatagrid)
    /\ UNCHANGED <<fdatagrid, column, pointwise>>

Call_band_depth(pw) ==
    /\ call = "none"
    /\ fdatagrid # NoGrid
    /\ call' = "band_depth"
    /\ pointwise' = pw
    /\ result' = band_depth(fdatagrid, pw)
    /\ UNCHANGED <<fdatagrid, column>>

Call_modified_band_depth(pw) ==
    /\ call = "none"
    /\ fdatagrid # NoGrid
    /\ call' = "modified_band_depth"
    /\ pointwise' = pw
    /\ result' = modified_band_depth(fdatagrid, pw)
    /\ UNCHANGED <<fdatagrid, column>>

Call_cumulative_distribution ==
    /\ call = "none"
    /\ column # NoColumn
    /\ call' = "_cumulative_distribution"
    /\ result' = _cumulative_distribution(column)
    /\ UNCHANGED <<fdatagrid, column, pointwise>>

Call_fraiman_muniz_depth(pw) ==
    /\ call = "none"
    /\ fdatagrid # NoGrid
    /\ call' = "fraiman_muniz_depth"
    /\ pointwise' = pw
    /\ result' = fraiman_muniz_depth(fdatagrid, pw)
    /\ UNCHANGED <<fdatagrid, column>>

Next ==
    \/ Call_rank_samples
    \/ \E pw \in BOOLEAN : Call_band_depth(pw)
    \/ \E pw \in BOOLEAN : Call_modified_band_depth(pw)
    \/ Call_cumulative_distribution
    \/ \E pw \in BOOLEAN : Call_fraiman_muniz_depth(pw)

Spec == Init /\ [][Next]_vars

\* fraiman_muniz_depth alone, on curves over unevenly spaced coordinates
InitFM ==
    /\ \E q \in FMGridSizes :
           \E cs \in CrossSectionChoices(q[1], <<Len(q[3])>>, 1) :
               fdatagrid =
                   FMGrid(q[2], q[3], DataMatrix(q[1], <<Len(q[3])>>, 1, cs))
    /\ column = NoColumn
    /\ pointwise = FALSE
    /\ call = "none"
    /\ result = NoResult

NextFM == \E pw \in BOOLEAN : Call_fraiman_muniz_depth(pw)

SpecFM == InitFM /\ [][NextFM]_vars

(***************************************************************************)
(* Notions the claims are stated with                                      *)
(***************************************************************************)
Val(fd, i, index) == fd.data_matrix[i][index][1]

Points(fd) == Indices(GridShape(fd))

Min2(a, b) == IF a <= b THEN a ELSE b

Max2(a, b) == IF a <= b THEN b ELSE a

\* sample i lies in the closed band of samples j and k at one grid point
InBandAt(fd, i, j, k, index) ==
    /\ Min2(Val(fd, j, index), Val(fd, k, index)) <= Val(fd, i, index)
    /\ Val(fd, i, index) <= Max2(Val(fd, j, index), Val(fd, k, index))

\* the unordered pairs of distinct samples
Pairs(fd) == {q \in (1..nsamples(fd)) \X (1..nsamples(fd)) : q[1] < q[2]}

\* the pairs whose band contains the whole graph of sample i
BandsContaining(fd, i) ==
    {q \in Pairs(fd) : \A index \in Points(fd) : InBandAt(fd, i, q[1], q[2], index)}

\* over all pairs, the grid points at which the band contains sample i
BandPointsContaining(fd, i) ==
    {x \in Pairs(fd) \X Points(fd) : InBandAt(fd, i, x[1][1], x[1][2], x[2])}

\* the pairs of other samples that bound sample i at one grid point
OtherPairsBounding(fd, i, index) ==
    {q \in Pairs(fd) : q[1] # i /\ q[2] # i /\ InBandAt(fd, i, q[1], q[2], index)}

PairCount(fd) == (nsamples(fd) * (nsamples(fd) - 1)) \div 2

InRange(a, lo, hi) == IsFinite(a) /\ RLeq(lo, a) /\ RLeq(a, hi)

AllIdentical(fd) ==
    \A i \in 1..nsamples(fd) : fd.data_matrix[i] = fd.data_matrix[1]

(***************************************************************************)
(* C1                                                                      *)
(***************************************************************************)
\* C1: for image_dim = 1 and n >= 2, band_depth gives every sample the number
\* of pairs of distinct samples whose closed band contains the sample's whole
\* graph (pairs with the sample itself included), divided by C(n,2).
C1_BandDepthIsFractionOfBands ==
    (call = "band_depth" /\ result.kind = "ok" /\ nsamples(fdatagrid) >= 2)
        => \A i \in 1..nsamples(fdatagrid) :
               result.depth[i] =
                   Frac(Cardinality(BandsContaining(fdatagrid, i)),
                        PairCount(fdatagrid))

(***************************************************************************)
(* C2                                                                      *)
(***************************************************************************)
\* C2: when all n >= 2 samples are identical, band_depth and
\* modified_band_depth give 1.0 to every sample.
C2_IdenticalSamplesHaveDepthOne ==
    (/\ call \in {"band_depth", "modified_band_depth"}
     /\ result.kind = "ok"
     /\ nsamples(fdatagrid) >= 2
     /\ AllIdentical(fdatagrid))
        => \A i \in 1..nsamples(fdatagrid) : result.depth[i] = RInt(1)

(***************************************************************************)
(* C3                                                                      *)
(***************************************************************************)
\* C3: for image_dim = 1 and n >= 2, modified_band_depth gives every sample
\* the average over all pairs of distinct samples of the proportion of grid
\* points at which the sample lies in the pair's closed band, and match[i,t]
\* is the number of pairs of other samples bounding sample i at t, ties
\* included.
C3_ModifiedBandDepthIsAverageProportion ==
    (/\ call = "modified_band_depth"
     /\ result.kind = "ok"
     /\ nsamples(fdatagrid) >= 2)
        => \A i \in 1..nsamples(fdatagrid) :
            /\ result.depth[i] =
                   Frac(Cardinality(BandPointsContaining(fdatagrid, i)),
                        PairCount(fdatagrid) * Cardinality(Points(fdatagrid)))
            /\ \A index \in Points(fdatagrid) :
                   Match(fdatagrid, _rank_samples(fdatagrid).ranks)[i][index] =
                       Cardinality(OtherPairsBounding(fdatagrid, i, index))

(***************************************************************************)
(* C4                                                                      *)
(***************************************************************************)
DepthsInUnitInterval ==
    /\ \A i \in 1..nsamples(fdatagrid) :
           InRange(result.depth[i], RInt(0), RInt(1))
    /\ pointwise =>
           \A i \in 1..nsamples(fdatagrid) : \A index \in Points(fdatagrid) :
               InRange(result.depth_pointwise[i][index], RInt(0), RInt(1))

\* C4 as stated: for every grid with image_dim = 1 and n_samples >= 1, every
\* depth and every pointwise entry returned by band_depth and
\* modified_band_depth is a finite number in [0, 1].
C4_DepthsInUnitIntervalFromOneSample ==
    (call \in {"band_depth", "modified_band_depth"} /\ result.kind = "ok")
        => DepthsInUnitInterval

\* C4 amended: for every grid with image_dim = 1 and n_samples >= 2, every
\* depth and every pointwise entry returned by band_depth and
\* modified_band_depth is a finite number in [0, 1].
C4_DepthsInUnitIntervalFromTwoSamples ==
    (/\ call \in {"band_depth", "modified_band_depth"}
     /\ result.kind = "ok"
     /\ nsamples(fdatagrid) >= 2)
        => DepthsInUnitInterval

C4_Witness ==
    /\ call = "band_depth"
    /\ pointwise
    /\ result.kind = "ok"
    /\ nsamples(fdatagrid) = 3
    /\ ndim_domain(fdatagrid) = 2
    /\ \E i \in 1..3 : result.depth[i] = RInt(1)
    /\ \E i \in 1..3 : \E index \in Points(fdatagrid) :
           result.depth_pointwise[i][index] = Frac(2, 3)

(***************************************************************************)
(* C5                                                                      *)
(***************************************************************************)
AtMost(fd, i, index) ==
    {j \in 1..nsamples(fd) : Val(fd, j, index) <= Val(fd, i, index)}

Top(fd, index) ==
    {j \in 1..nsamples(fd) :
        \A k \in 1..nsamples(fd) : Val(fd, k, index) <= Val(fd, j, index)}

\* sample i holds the largest value below the top value
NextBelowTop(fd, i, index) ==
    /\ i \notin Top(fd, index)
    /\ \A k \in 1..nsamples(fd) \ Top(fd, index) :
           Val(fd, k, index) <= Val(fd, i, index)

\* C5: _rank_samples gives sample i at grid point t the number of samples
\* (i included) whose value at t is at most that of i; so ranks are in
\* 1..n_samples, tied samples share their rank, a maximum has rank n_samples
\* and below k samples tied for the top the next value has rank n_samples - k.
C5_RankCountsSamplesAtMost ==
    (call = "_rank_samples" /\ result.kind = "ok")
        => \A i \in 1..nsamples(fdatagrid) : \A index \in Points(fdatagrid) :
            LET n == nsamples(fdatagrid)
                rank == result.ranks[i][index]
            IN  /\ rank = Cardinality(AtMost(fdatagrid, i, index))
                /\ rank \in 1..n
                /\ \A j \in 1..n :
                       Val(fdatagrid, j, index) = Val(fdatagrid, i, index)
                           => result.ranks[j][index] = rank
                /\ i \in Top(fdatagrid, index) => rank = n
                /\ NextBelowTop(fdatagrid, i, index)
                       => rank = n - Cardinality(Top(fdatagrid, index))

C5_Witness ==
    /\ call = "_rank_samples"
    /\ result.kind = "ok"
    /\ nsamples(fdatagrid) = 3
    /\ \E index \in Points(fdatagrid) :
           /\ Top(fdatagrid, index) = {1, 3}
           /\ NextBelowTop(fdatagrid, 2, index)
           /\ result.ranks[1][index] = 3
           /\ result.ranks[2][index] = 1
           /\ result.ranks[3][index] = 3

(***************************************************************************)
(* C6                                                                      *)
(***************************************************************************)
DocDistribution ==
    <<Frac(4, 10), Frac(9, 10), Frac(10, 10), Frac(4, 10), Frac(6, 10),
      Frac(6, 10), Frac(9, 10), Frac(4, 10), Frac(4, 10), Frac(7, 10)>>

\* C6: for a one-dimensional array of n values _cumulative_distribution gives
\* at index i the proportion |{j : column[j] <= column[i]}| / n, in index
\* order; [1,4,5,1,2,2,4,1,1,3] gives [0.4,0.9,1.0,0.4,0.6,0.6,0.9,0.4,0.4,0.7].
C6_EmpiricalDistribution ==
    (call = "_cumulative_distribution" /\ result.kind = "ok")
        => /\ Len(result.values) = Len(column.data)
           /\ \A i \in 1..Len(column.data) :
                  result.values[i] =
                      Frac(Cardinality({j \in 1..Len(column.data) :
                                           column.data[j] <= column.data[i]}),
                           Len(column.data))
           /\ column = DocColumn => result.values = DocDistribution

C6_Witness ==
    /\ call = "_cumulative_distribution"
    /\ column = DocColumn
    /\ result.kind = "ok"
    /\ result.values[1] = Frac(2, 5)
    /\ result.values[3] = RInt(1)

(***************************************************************************)
(* C7                                                                      *)
(***************************************************************************)
\* the call breaks the precondition of the function called
PreconditionViolated ==
    CASE call \in {"_rank_samples", "band_depth", "modified_band_depth"} ->
             ndim_image(fdatagrid) > 1
      [] call = "fraiman_muniz_depth" ->
             ndim_domain(fdatagrid) # 1 \/ ndim_image(fdatagrid) > 1
      [] call = "_cumulative_distribution" -> Len(column.shape) # 1

\* C7: a call that breaks its precondition raises the one dimension error
\* and returns nothing, no full and no partial result; a call whose
\* precondition holds returns its result and raises no such error.
C7_InvalidDimensionIffPreconditionViolated ==
    call # "none"
        => /\ PreconditionViolated => result = ValueError
           /\ ~PreconditionViolated => result.kind = "ok"

C7_Witness ==
    /\ call = "fraiman_muniz_depth"
    /\ ndim_domain(fdatagrid) = 2
    /\ ndim_image(fdatagrid) = 1
    /\ result = ValueError

(***************************************************************************)
(* C8                                                                      *)
(***************************************************************************)
Half == Frac(1, 2)

FMPointwiseInRange ==
    pointwise =>
        \A i \in 1..nsamples(fdatagrid) :
            \A t \in 1..Len(fdatagrid.sample_points[1]) :
                InRange(result.depth_pointwise[i][t], Half, RInt(1))

FMDepthInRange ==
    \A i \in 1..nsamples(fdatagrid) : InRange(result.depth[i], Half, RInt(1))

\* of two consecutive spacings neither is more than twice the other
GentleSpacing(x) ==
    \A k \in 1..(Len(x) - 2) :
        /\ x[k + 1] - x[k] <= 2 * (x[k + 2] - x[k + 1])
        /\ x[k + 2] - x[k + 1] <= 2 * (x[k + 1] - x[k])

\* C8 as stated: for domain_dims = 1 and image_dim = 1, strictly increasing
\* coordinates and any number of grid points, every depth returned by
\* fraiman_muniz_depth and every pointwise entry lies in [0.5, 1].
C8_FraimanMunizInHalfToOne ==
    (call = "fraiman_muniz_depth" /\ result.kind = "ok")
        => FMPointwiseInRange /\ FMDepthInRange

\* C8 amended: every pointwise entry lies in [0.5, 1]; the depth lies in
\* [0.5, 1] when the grid has at least two points, no spacing is more than
\* twice its neighbour and the domain range is the span of the coordinates.
C8_FraimanMunizInHalfToOneOnGentleGrids ==
    (call = "fraiman_muniz_depth" /\ result.kind = "ok")
        => /\ FMPointwiseInRange
           /\ (/\ Len(fdatagrid.sample_points[1]) >= 2
               /\ GentleSpacing(fdatagrid.sample_points[1])
               /\ fdatagrid.domain_range[1] = Span(fdatagrid.sample_points[1]))
                  => FMDepthInRange

C8_Witness ==
    /\ call = "fraiman_muniz_depth"
    /\ result.kind = "ok"
    /\ nsamples(fdatagrid) = 2
    /\ fdatagrid.sample_points[1] = <<0, 1, 3, 4>>
    /\ fdatagrid.domain_range[1] = <<0, 4>>
    /\ RLeq(result.depth[1], result.depth[2])
    /\ result.depth[1] \notin {Half, result.depth[2]}
    /\ result.depth[2] # RInt(1)

(***************************************************************************)
(* C9                                                                      *)
(***************************************************************************)
SampleOrders(n) ==
    {p \in [1..n -> 1..n] : \A i, j \in 1..n : p[i] = p[j] => i = j}

\* the grid whose sample i is sample p[i] of fd
Reordered(fd, p) ==
    [fd EXCEPT !.data_matrix = [i \in 1..nsamples(fd) |-> fd.data_matrix[p[i]]]]

ReorderedResult(res, p) ==
    IF pointwise
    THEN [kind |-> "ok",
          depth |-> [i \in 1..Len(res.depth) |-> res.depth[p[i]]],
          depth_pointwise |->
              [i \in 1..Len(res.depth) |-> res.depth_pointwise[p[i]]]]
    ELSE [kind |-> "ok",
          depth |-> [i \in 1..Len(res.depth) |-> res.depth[p[i]]]]

\* C9: band_depth and modified_band_depth of a grid whose samples are
\* reordered by a permutation are the results of the original grid reordered
\* by the same permutation.
C9_DepthFollowsSampleOrder ==
    (call \in {"band_depth", "modified_band_depth"} /\ result.kind = "ok")
        => \A p \in SampleOrders(nsamples(fdatagrid)) :
               (IF call = "band_depth"
                THEN band_depth(Reordered(fdatagrid, p), pointwise)
                ELSE modified_band_depth(Reordered(fdatagrid, p), pointwise))
                   = ReorderedResult(result, p)

C9_Witness ==
    /\ call = "band_depth"
    /\ pointwise
    /\ result.kind = "ok"
    /\ nsamples(fdatagrid) = 3
    /\ fdatagrid.data_matrix[1] = fdatagrid.data_matrix[3]
    /\ fdatagrid.data_matrix[1] # fdatagrid.data_matrix[2]
    /\ result.depth[1] = result.depth[3]
    /\ result.depth[1] # result.depth[2]

(***************************************************************************)
(* C10                                                                     *)
(***************************************************************************)
RECURSIVE RSumOver(_, _)
RSumOver(f, S) ==
    IF S = {} THEN RInt(0)
    ELSE LET x == CHOOSE y \in S : TRUE IN RAdd(f[x], RSumOver(f, S \ {x}))

\* arithmetic mean of an array over all its grid points
MeanOverPoints(f) == RDiv(RSumOver(f, DOMAIN f), RInt(Cardinality(DOMAIN f)))

\* C10: for image_dim = 1, n >= 2 and any number of domain axes, the mean
\* over all grid points of the pointwise array of modified_band_depth is the
\* depth the call without pointwise returns, and so is the depth returned
\* next to the pointwise array.
C10_MeanOfPointwiseIsDepth ==
    (/\ call = "modified_band_depth"
     /\ pointwise
     /\ result.kind = "ok"
     /\ nsamples(fdatagrid) >= 2)
        => \A i \in 1..nsamples(fdatagrid) :
            /\ MeanOverPoints(result.depth_pointwise[i]) =
                   modified_band_depth(fdatagrid, FALSE).depth[i]
            /\ result.depth[i] = modified_band_depth(fdatagrid, FALSE).depth[i]

C10_Witness ==
    /\ call = "modified_band_depth"
    /\ pointwise
    /\ result.kind = "ok"
    /\ nsamples(fdatagrid) = 3
    /\ GridShape(fdatagrid) = <<1, 2>>
    /\ result.depth_pointwise[1][<<1, 1>>] = RInt(1)
    /\ result.depth_pointwise[1][<<1, 2>>] = Frac(2, 3)
    /\ result.depth[1] = Frac(5, 6)

(***************************************************************************)
(* C11                                                                     *)
(***************************************************************************)
Below(fd, i, index) ==
    {j \in 1..nsamples(fd) : Val(fd, j, index) < Val(fd, i, index)}

Above(fd, i, index) ==
    {j \in 1..nsamples(fd) : Val(fd, j, index) > Val(fd, i, index)}

\* the value of sample i is a median of the cross-section: at most half of
\* the samples lie strictly below it and at most half strictly above it
AtMedian(fd, i, index) ==
    /\ 2 * Cardinality(Below(fd, i, index)) <= nsamples(fd)
    /\ 2 * Cardinality(Above(fd, i, index)) <= nsamples(fd)

\* F_t(v_i(t)): the proportion of the samples with a value at most v_i(t)
EmpiricalF(fd, i, index) ==
    Frac(Cardinality(AtMost(fd, i, index)), nsamples(fd))

FMPointwiseCalled ==
    call = "fraiman_muniz_depth" /\ pointwise /\ result.kind = "ok"

\* C11 as stated: the pointwise depth of fraiman_muniz_depth is
\* 1 - |0.5 - F_t(v_i(t))|; it is 1.0 exactly when sample i is at the median
\* of the cross-section at t, and 0.5 when sample i holds the maximum or the
\* minimum value at t.
C11_PointwiseDepthMedianAndExtremes ==
    FMPointwiseCalled
        => \A i \in 1..nsamples(fdatagrid) :
           \A t \in 1..Len(fdatagrid.sample_points[1]) :
               LET d == result.depth_pointwise[i][t]
               IN  /\ d = RSub(RInt(1),
                               RAbs(RSub(Half, EmpiricalF(fdatagrid, i, <<t>>))))
                   /\ d = RInt(1) <=> AtMedian(fdatagrid, i, <<t>>)
                   /\ Above(fdatagrid, i, <<t>>) = {} => d = Half
                   /\ Below(fdatagrid, i, <<t>>) = {} => d = Half

\* C11 amended: the pointwise depth is 1 - |0.5 - F_t(v_i(t))|; it is 1.0
\* exactly when exactly half of the samples have a value at most v_i(t), and
\* 0.5 exactly when sample i holds the maximum value at t; a sample holding
\* the minimum together with k - 1 others has 1 - |0.5 - k/n|.
C11_PointwiseDepthHalfAndMaximum ==
    FMPointwiseCalled
        => \A i \in 1..nsamples(fdatagrid) :
           \A t \in 1..Len(fdatagrid.sample_points[1]) :
               LET d == result.depth_pointwise[i][t]
                   n == nsamples(fdatagrid)
                   k == Cardinality(AtMost(fdatagrid, i, <<t>>))
               IN  /\ d = RSub(RInt(1),
                               RAbs(RSub(Half, EmpiricalF(fdatagrid, i, <<t>>))))
                   /\ d = RInt(1) <=> 2 * k = n
                   /\ d = Half <=> Above(fdatagrid, i, <<t>>) = {}
                   /\ Below(fdatagrid, i, <<t>>) = {}
                          => d = (IF 2 * k <= n THEN Frac(n + 2 * k, 2 * n)
                                  ELSE Frac(3 * n - 2 * k, 2 * n))

C11_Witness ==
    /\ FMPointwiseCalled
    /\ nsamples(fdatagrid) = 3
    /\ Below(fdatagrid, 1, <<1>>) = {}
    /\ Above(fdatagrid, 1, <<1>>) = {2, 3}
    /\ Above(fdatagrid, 3, <<1>>) = {}
    /\ result.depth_pointwise[1][1] = Frac(5, 6)
    /\ result.depth_pointwise[2][1] = Frac(5, 6)
    /\ result.depth_pointwise[3][1] = Half

(***************************************************************************)
(* C12                                                                     *)
(***************************************************************************)
SameRankEverywhere(fd, i) ==
    \A x, y \in Points(fd) :
        _rank_samples(fd).ranks[i][x] = _rank_samples(fd).ranks[i][y]

\* C12: for image_dim = 1 and n >= 2 the band depth of every sample is at
\* most its modified band depth, the two are equal when the sample has the
\* same rank at every grid point, and both are at least (n - 1) / C(n,2).
C12_BandDepthAtMostModified ==
    (call = "band_depth" /\ result.kind = "ok" /\ nsamples(fdatagrid) >= 2)
        => \A i \in 1..nsamples(fdatagrid) :
            LET bd == result.depth[i]
                mbd == modified_band_depth(fdatagrid, FALSE).depth[i]
                least == Frac(nsamples(fdatagrid) - 1, PairCount(fdatagrid))
            IN  /\ IsFinite(bd) /\ IsFinite(mbd)
                /\ RLeq(bd, mbd)
                /\ SameRankEverywhere(fdatagrid, i) => bd = mbd
                /\ RLeq(least, bd)
                /\ RLeq(least, mbd)

C12_Witness ==
    /\ call = "band_depth"
    /\ result.kind = "ok"
    /\ nsamples(fdatagrid) = 3
    /\ GridShape(fdatagrid) = <<2>>
    /\ SameRankEverywhere(fdatagrid, 1)
    /\ result.depth[1] = RInt(1)
    /\ ~SameRankEverywhere(fdatagrid, 2)
    /\ result.depth[2] = Frac(2, 3)
    /\ modified_band_depth(fdatagrid, FALSE).depth[2] = Frac(5, 6)

====
